---- MODULE Spec2Model ----
(***************************************************************************)
(* Model of app.py, the rubric peer-evaluation application (Streamlit).    *)
(*                                                                         *)
(* Every browser session runs the script top to bottom on each rerun. The  *)
(* sessions share three JSON files.  _load_json_shared and                 *)
(* _save_json_shared each take the file's exclusive lock for one load or   *)
(* one save only, so a load and a save are atomic steps on their own and   *)
(* other sessions may run between the load and the save of one handler.    *)
(*                                                                         *)
(* Conventions                                                             *)
(*   - Python None / Optional values are sequences of length at most one:  *)
(*     None is <<>>, a present value x is <<x>>.                           *)
(*   - datetime values are minutes on an integer clock; isoformat strings  *)
(*     are records [iso |-> t].                                            *)
(*   - floats are exact rationals [num, den] in lowest terms.              *)
(*   - text is a sequence of one-character strings.                        *)
(*   - "GRUPO i" is the integer i.                                         *)
(*   - the write-only fields "fecha" of a submission and "updated_at" of   *)
(*     the session state are not kept: no code path reads them back into   *)
(*     a decision.                                                         *)
(***************************************************************************)
EXTENDS Integers, Sequences, FiniteSets, TLC

VARIABLES
    calificaciones_json,  \* content of calificaciones.json
    estado_sesion_json,   \* content of estado_sesion.json
    configuracion_json,   \* "pesos" of configuracion_rubrica.json
    now,                  \* datetime.now(), in minutes
    pc,                   \* position of each browser session in its rerun
    session_state,        \* st.session_state of each browser session
    local                 \* local variables and widget values of the rerun

vars == <<calificaciones_json, estado_sesion_json, configuracion_json, now,
          pc, session_state, local>>

----------------------------------------------------------------------------
(* Bounds of the model                                                     *)

MaxTime == 32
MaxCalifs == 2
MaxSesiones == 2
MaxVotos == 3

----------------------------------------------------------------------------
(* Program constants                                                       *)

TIEMPO_MINIMO == 15
TIEMPO_MAXIMO == 300
NumGrupos == 8

GRUPOS_DISPONIBLES == 1..NumGrupos

RUBRICA_ESTRUCTURA ==
    << [id |-> "ID11: IDENTIFICAR", criterios |-> <<"C111", "C112">>],
       [id |-> "ID12: FORMULAR",    criterios |-> <<"C121", "C122">>],
       [id |-> "ID13: RESOLVER",    criterios |-> <<"C131", "C132", "C133">>] >>

Criterios == {"C111", "C112", "C121", "C122", "C131", "C132", "C133"}

\* RANGOS_NUMERICOS, in hundredths
RANGOS_NUMERICOS ==
    [A |-> <<450, 500>>, B |-> <<400, 450>>, C |-> <<350, 400>>,
     D |-> <<300, 350>>, E |-> <<0, 300>>]

None == <<>>
Some(x) == <<x>>

isoformat(t) == [iso |-> t]
fromisoformat(s) == s.iso

----------------------------------------------------------------------------
(* Text: str.strip() and str.upper()                                       *)

Espacio == " "

UpperChar(c) ==
    CASE c = "a" -> "A"
      [] c = "b" -> "B"
      [] OTHER -> c

upper(s) == [i \in 1..Len(s) |-> UpperChar(s[i])]

RECURSIVE lstrip(_)
lstrip(s) ==
    IF s = <<>> THEN <<>>
    ELSE IF Head(s) = Espacio THEN lstrip(Tail(s)) ELSE s

RECURSIVE rstrip(_)
rstrip(s) ==
    IF s = <<>> THEN <<>>
    ELSE IF s[Len(s)] = Espacio THEN rstrip(SubSeq(s, 1, Len(s) - 1)) ELSE s

strip(s) == rstrip(lstrip(s))

----------------------------------------------------------------------------
(* Persistence                                                             *)

\* cargar_datos on a missing file
DatosDefault == [calificaciones |-> <<>>, sesiones |-> <<>>]

\* cargar_estado_sesion's default
EstadoDefault ==
    [sesion_activa |-> FALSE, tiempo_fin |-> None, duracion_minutos |-> None,
     updated_by |-> None]

cargar_datos == calificaciones_json

\* the estado dict built by guardar_estado_sesion
EstadoNuevo(sesion_activa, tiempo_fin, duracion_minutos, updated_by) ==
    [sesion_activa |-> sesion_activa,
     tiempo_fin |-> IF tiempo_fin # None THEN Some(isoformat(tiempo_fin[1])) ELSE None,
     duracion_minutos |-> duracion_minutos,
     updated_by |-> Some(updated_by)]

\* Expirado with the expiry taken one minute late
Expirado_tardio(estado, t) ==
    /\ estado.sesion_activa
    /\ estado.tiempo_fin # None
    /\ t > fromisoformat(estado.tiempo_fin[1]) + 1

\* the auto-expiry test of cargar_estado_sesion on a loaded estado
Expirado(estado, t) ==
    /\ estado.sesion_activa
    /\ estado.tiempo_fin # None
    /\ t > fromisoformat(estado.tiempo_fin[1])

\* the estado dict cargar_estado_sesion returns (and saves when it expired)
EstadoLeido(estado, t) ==
    IF Expirado(estado, t)
    THEN [estado EXCEPT !.sesion_activa = FALSE, !.updated_by = Some("auto-expire")]
    ELSE estado

----------------------------------------------------------------------------
(* configuracion_rubrica.json, read and written without a lock             *)

\* the file after open(CONFIG_FILE, "w") of line 128 has emptied it and before
\* json.dump of line 129 has written to it
ArchivoVacio == [vacio |-> TRUE]

\* the file holding the start of one dump followed by the tail of a longer one
ArchivoCorrupto(n) == [corrupto |-> TRUE, longitud |-> n]

\* json.load of line 106 succeeds on the file
Entero(archivo) == "ID11" \in DOMAIN archivo

\* the session whose run was halted by st.stop() of lines 119 and 122 has no
\* "config" in its st.session_state
SinCargar == [cargado |-> FALSE]

\* the characters json.dump writes for an int
digitos(n) ==
    IF n < 0 THEN IF n > -10 THEN 2 ELSE IF n > -100 THEN 3 ELSE 4
    ELSE IF n < 10 THEN 1 ELSE IF n < 100 THEN 2 ELSE 3

\* the length of the file, up to the part that is the same for every config
longitud(archivo) ==
    IF archivo = ArchivoVacio THEN 0
    ELSE IF Entero(archivo)
         THEN digitos(archivo.ID11) + digitos(archivo.ID12) + digitos(archivo.ID13)
         ELSE archivo.longitud

\* line 129, json.dump through the handle of line 128: config is written from
\* the start of the file over what another writer has put there since the
\* handle was opened, and what lies beyond its end stays
volcado(archivo, config) ==
    IF longitud(archivo) <= longitud(config) THEN config
    ELSE ArchivoCorrupto(longitud(archivo))

----------------------------------------------------------------------------
(* Helpers of section 5                                                    *)

\* obtener_grupos_a_calificar without its filter
obtener_grupos_todos(grupo_afiliacion) == GRUPOS_DISPONIBLES

obtener_grupos_a_calificar(grupo_afiliacion) ==
    {g \in GRUPOS_DISPONIBLES : g # grupo_afiliacion}

\* verificar_calificacion_existente comparing the ids as typed
verificar_sin_mayusculas(califs, id_estudiante, grupo_afiliacion, grupo_a_calificar) ==
    \E i \in 1..Len(califs) :
        /\ califs[i].id_estudiante = strip(id_estudiante)
        /\ califs[i].grupo_afiliacion = grupo_afiliacion
        /\ califs[i].grupo_calificado = grupo_a_calificar

\* the scan of verificar_calificacion_existente over loaded submissions
verificar_calificacion_existente(califs, id_estudiante, grupo_afiliacion, grupo_a_calificar) ==
    LET id_limpio == upper(strip(id_estudiante))
    IN \E i \in 1..Len(califs) :
          /\ upper(califs[i].id_estudiante) = id_limpio
          /\ califs[i].grupo_afiliacion = grupo_afiliacion
          /\ califs[i].grupo_calificado = grupo_a_calificar

----------------------------------------------------------------------------
(* Floats, as exact rationals in lowest terms                              *)

RECURSIVE GCD(_, _)
GCD(a, b) == IF b = 0 THEN a ELSE GCD(b, a % b)

Rat(n, d) ==
    LET g == GCD(IF n < 0 THEN -n ELSE n, d)
    IN [num |-> n \div g, den |-> d \div g]

RatAdd(x, y) == Rat(x.num * y.den + y.num * x.den, x.den * y.den)
RatMul(x, y) == Rat(x.num * y.num, x.den * y.den)
RatDiv(x, y) == Rat(x.num * y.den, x.den * y.num)
RatInt(n) == Rat(n, 1)

RECURSIVE sum(_)
sum(valores) ==
    IF valores = <<>> THEN RatInt(0)
    ELSE RatAdd(sum(SubSeq(valores, 1, Len(valores) - 1)), valores[Len(valores)])

----------------------------------------------------------------------------
(* calcular_moda, letra_a_numero                                           *)

\* collections.Counter(calificaciones): the counts, in order of first occurrence
RECURSIVE Counter(_)
Counter(calificaciones) ==
    IF calificaciones = <<>> THEN <<>>
    ELSE LET antes == Counter(SubSeq(calificaciones, 1, Len(calificaciones) - 1))
             letra == calificaciones[Len(calificaciones)]
         IN IF \E i \in 1..Len(antes) : antes[i][1] = letra
            THEN [i \in 1..Len(antes) |->
                     IF antes[i][1] = letra THEN <<letra, antes[i][2] + 1>> ELSE antes[i]]
            ELSE Append(antes, <<letra, 1>>)

\* most_common_1 keeping the last item among those with the largest count
RECURSIVE most_common_1_ultimo(_)
most_common_1_ultimo(conteo) ==
    IF Len(conteo) = 1 THEN conteo[1]
    ELSE LET mejor == most_common_1_ultimo(SubSeq(conteo, 1, Len(conteo) - 1))
             ultimo == conteo[Len(conteo)]
         IN IF ultimo[2] >= mejor[2] THEN ultimo ELSE mejor

\* Counter.most_common(1)[0]: max() over the items by count, which keeps the
\* first item among those with the largest count
RECURSIVE most_common_1(_)
most_common_1(conteo) ==
    IF Len(conteo) = 1 THEN conteo[1]
    ELSE LET mejor == most_common_1(SubSeq(conteo, 1, Len(conteo) - 1))
             ultimo == conteo[Len(conteo)]
         IN IF ultimo[2] > mejor[2] THEN ultimo ELSE mejor

calcular_moda(calificaciones) ==
    IF calificaciones = <<>> THEN None
    ELSE Some(most_common_1(Counter(calificaciones))[1])

letra_a_numero(letra) ==
    IF letra \notin DOMAIN RANGOS_NUMERICOS THEN RatInt(0)
    ELSE LET min_val == RANGOS_NUMERICOS[letra][1]
             max_val == RANGOS_NUMERICOS[letra][2]
         IN RatDiv(Rat(min_val + max_val, 100), RatInt(2))

----------------------------------------------------------------------------
(* calcular_promedios_grupo                                                *)

\* id_nombre[:4]
key_peso(id_nombre) ==
    CASE id_nombre = "ID11: IDENTIFICAR" -> "ID11"
      [] id_nombre = "ID12: FORMULAR" -> "ID12"
      [] id_nombre = "ID13: RESOLVER" -> "ID13"

\* config["pesos"].get(key, 0)
peso_de(pesos, key) == IF key \in DOMAIN pesos THEN pesos[key] ELSE 0

\* lines 308-311
calificaciones_grupo(califs, grupo_calificado) ==
    SelectSeq(califs, LAMBDA cal : cal.grupo_calificado = grupo_calificado)

\* lines 325-330: the votes for one criterion, in the order of the submissions
RECURSIVE califs_criterio(_, _)
califs_criterio(del_grupo, criterio) ==
    IF del_grupo = <<>> THEN <<>>
    ELSE LET cal == Head(del_grupo)
             resto == califs_criterio(Tail(del_grupo), criterio)
         IN IF criterio \in DOMAIN cal.calificaciones
            THEN <<cal.calificaciones[criterio]>> \o resto
            ELSE resto

\* lines 323-341: resultados["criterios"]
resultados_criterios(del_grupo) ==
    LET votados == {c \in Criterios : califs_criterio(del_grupo, c) # <<>>}
    IN [c \in votados |->
          LET votos == califs_criterio(del_grupo, c)
              moda == calcular_moda(votos)[1]
          IN [cualitativa |-> moda,
              numerica |-> letra_a_numero(moda),
              total_calificaciones |-> Len(votos),
              distribucion |-> Counter(votos)]]

\* valores_criterios counting a criterion without votes as 0.0
valores_criterios_con_ceros(criterios, res_criterios) ==
    IF \A i \in 1..Len(criterios) : criterios[i] \notin DOMAIN res_criterios
    THEN <<>>
    ELSE [i \in 1..Len(criterios) |->
            IF criterios[i] \in DOMAIN res_criterios
            THEN res_criterios[criterios[i]].numerica
            ELSE RatInt(0)]

\* lines 344-347: valores_criterios of one indicator
valores_criterios(criterios, res_criterios) ==
    LET presentes == SelectSeq(criterios, LAMBDA c : c \in DOMAIN res_criterios)
    IN [i \in 1..Len(presentes) |-> res_criterios[presentes[i]].numerica]

\* lines 343-354: resultados["ids"]
resultados_ids(res_criterios, pesos) ==
    LET con_valores == {k \in 1..Len(RUBRICA_ESTRUCTURA) :
            valores_criterios(RUBRICA_ESTRUCTURA[k].criterios, res_criterios) # <<>>}
        nombres == {RUBRICA_ESTRUCTURA[k].id : k \in con_valores}
        de(nombre) == CHOOSE k \in con_valores : RUBRICA_ESTRUCTURA[k].id = nombre
    IN [id_nombre \in nombres |->
          LET valores == valores_criterios(RUBRICA_ESTRUCTURA[de(id_nombre)].criterios,
                                           res_criterios)
          IN [promedio |-> RatDiv(sum(valores), RatInt(Len(valores))),
              peso |-> peso_de(pesos, key_peso(id_nombre))]]

\* lines 356-360: nota_final, accumulated over resultados["ids"] in rubric order
RECURSIVE nota_final(_, _, _)
nota_final(k, res_ids, pesos) ==
    IF k = 0 THEN RatInt(0)
    ELSE LET id_nombre == RUBRICA_ESTRUCTURA[k].id
             antes == nota_final(k - 1, res_ids, pesos)
         IN IF id_nombre \in DOMAIN res_ids
            THEN LET peso == Rat(peso_de(pesos, key_peso(id_nombre)), 100)
                 IN RatAdd(antes, RatMul(res_ids[id_nombre].promedio, peso))
            ELSE antes

\* calcular_promedios_grupo giving no result for a final score of 0.0
calcular_promedios_sin_cero(califs, pesos, grupo_calificado) ==
    LET del_grupo == calificaciones_grupo(califs, grupo_calificado)
        res_criterios == resultados_criterios(del_grupo)
        res_ids == resultados_ids(res_criterios, pesos)
        final == nota_final(Len(RUBRICA_ESTRUCTURA), res_ids, pesos)
    IN IF del_grupo = <<>> \/ final.num = 0 THEN None
       ELSE Some([grupo_calificado |-> grupo_calificado,
                  criterios |-> res_criterios,
                  ids |-> res_ids,
                  final |-> final,
                  total_evaluadores |->
                     Cardinality({del_grupo[i].id_estudiante : i \in 1..Len(del_grupo)})])

\* calcular_promedios_grupo on the submissions it has just reloaded and the
\* session's config
calcular_promedios_grupo(califs, pesos, grupo_calificado) ==
    LET del_grupo == calificaciones_grupo(califs, grupo_calificado)
    IN IF del_grupo = <<>> THEN None
       ELSE LET res_criterios == resultados_criterios(del_grupo)
                res_ids == resultados_ids(res_criterios, pesos)
            IN Some([grupo_calificado |-> grupo_calificado,
                     criterios |-> res_criterios,
                     ids |-> res_ids,
                     final |-> nota_final(Len(RUBRICA_ESTRUCTURA), res_ids, pesos),
                     total_evaluadores |->
                        Cardinality({del_grupo[i].id_estudiante : i \in 1..Len(del_grupo)})])

----------------------------------------------------------------------------
(* Browser sessions and the values their users enter                       *)

Estudiantes == {"e1", "e2"}
Profesores == {"prof", "prof2"}
Sesiones == Estudiantes \cup Profesores

\* st.text_input "Tu ID personal": the same evaluator in two letter cases and
\* with surrounding blanks, a blank id and no id
IdsTecleados == {<<"a">>, <<" ", "A">>, <<" ">>, <<>>}

\* st.selectbox "Grupo al que perteneces"
GruposElegidos == {1, 2}

\* the groups a student is taken to pick in "Selecciona el grupo a calificar"
GruposCalificados == {2, 3}

\* the form of lines 436-459: one selectbox per criterion, so the dict has
\* every criterion of the rubric; index=2 preselects "C"
Formularios == {[c \in Criterios |-> "C"]}

\* st.number_input "Duracion (minutos)", min TIEMPO_MINIMO, max TIEMPO_MAXIMO
DuracionesElegidas ==
    {d \in {TIEMPO_MINIMO} : d >= TIEMPO_MINIMO /\ d <= TIEMPO_MAXIMO}

\* how far the clock moves between two steps
PasosReloj == {TIEMPO_MINIMO, TIEMPO_MINIMO + 1}

PesosIniciales == [ID11 |-> 25, ID12 |-> 25, ID13 |-> 50]

\* section 3: st.session_state after the first run of the script
SessionStateInicial(pesos) ==
    [datos |-> DatosDefault,
     config |-> pesos,
     sesion_activa |-> FALSE,
     tiempo_fin |-> None,
     resultados_calculados |-> None]

LocalInicial ==
    [op |-> None, estado |-> None, id_estudiante |-> None,
     grupo_afiliacion |-> None, grupo_a_calificar |-> None,
     calificaciones |-> None, fin |-> None, duracion |-> None,
     grupo |-> None, todos_resultados |-> <<>>]

Init ==
    /\ calificaciones_json = DatosDefault
    /\ estado_sesion_json = EstadoDefault
    /\ configuracion_json = PesosIniciales
    /\ now = 0
    /\ pc = [p \in Sesiones |-> "idle"]
    /\ session_state = [p \in Sesiones |-> SessionStateInicial(PesosIniciales)]
    /\ local = [p \in Sesiones |-> LocalInicial]

Tick ==
    \E d \in PasosReloj :
        /\ now + d <= MaxTime
        /\ now' = now + d
        /\ UNCHANGED <<calificaciones_json, estado_sesion_json, configuracion_json,
                       pc, session_state, local>>

----------------------------------------------------------------------------
(* sync_estado_global_a_session_state, first statement of both panels      *)

\* the script reaches its end (a return of the panel, or st.rerun): "datos",
\* "sesion_activa" and "tiempo_fin" of st.session_state and the locals are
\* dead from here on, the next rerun reloads them before it reads them
Volver(p) ==
    /\ pc' = [pc EXCEPT ![p] = "idle"]
    /\ session_state' = [session_state EXCEPT
            ![p].datos = DatosDefault, ![p].sesion_activa = FALSE, ![p].tiempo_fin = None]
    /\ local' = [local EXCEPT ![p] = LocalInicial]

\* where the rerun goes once sync has returned estado
DespuesDeSync(p, op, estado) ==
    IF (op = "estudiante" /\ ~estado.sesion_activa) \/ op = "ver"
    THEN \* line 376: if not st.session_state.sesion_activa: return
         Volver(p)
    ELSE /\ session_state' = [session_state EXCEPT
                ![p].sesion_activa = estado.sesion_activa,
                ![p].tiempo_fin = IF estado.tiempo_fin # None
                                  THEN Some(fromisoformat(estado.tiempo_fin[1]))
                                  ELSE None]
         /\ pc' = [pc EXCEPT ![p] = IF op = "estudiante" THEN "check" ELSE op]
         /\ local' = [local EXCEPT ![p] = LocalInicial]

\* the reruns taken to overlap: the one that starts and at most one other
UnaMasEnCurso(p) ==
    \A q, r \in Sesiones \ {p} :
        (pc[q] \notin {"idle", "detenido"} /\ pc[r] \notin {"idle", "detenido"}) => q = r

\* a rerun starts: cargar_estado_sesion loads the file and tests the expiry
Sync(p, op) ==
    /\ pc[p] = "idle"
    /\ UnaMasEnCurso(p)
    /\ LET estado == EstadoLeido(estado_sesion_json, now)
       IN IF Expirado(estado_sesion_json, now)
          THEN /\ pc' = [pc EXCEPT ![p] = "sync_save"]
               /\ local' = [local EXCEPT ![p].op = Some(op), ![p].estado = Some(estado)]
               /\ UNCHANGED session_state
          ELSE DespuesDeSync(p, op, estado)
    /\ UNCHANGED <<calificaciones_json, estado_sesion_json, configuracion_json, now>>

\* line 158: the expired estado is saved, then sync returns it
SyncSave(p) ==
    /\ pc[p] = "sync_save"
    /\ estado_sesion_json' = local[p].estado[1]
    /\ DespuesDeSync(p, local[p].op[1], local[p].estado[1])
    /\ UNCHANGED <<calificaciones_json, configuracion_json, now>>

----------------------------------------------------------------------------
(* mostrar_panel_estudiante                                                *)

\* lines 380-387: the panel's own expiry test, on a fresh datetime.now()
Est_Check(p) ==
    /\ pc[p] = "check"
    /\ IF session_state[p].tiempo_fin # None /\ now > session_state[p].tiempo_fin[1]
       THEN /\ estado_sesion_json' = EstadoNuevo(FALSE, None, None, "auto-expire-student")
            /\ Volver(p)
       ELSE /\ pc' = [pc EXCEPT ![p] = "verificar"]
            /\ UNCHANGED <<estado_sesion_json, session_state, local>>
    /\ UNCHANGED <<calificaciones_json, configuracion_json, now>>

\* lines 401-431: the id and group widgets, then verificar_calificacion_existente,
\* which reloads the shared submissions before it scans them
Est_Verificar(p, ids) ==
    /\ pc[p] = "verificar"
    /\ \E id_estudiante \in ids, grupo_afiliacion \in GruposElegidos :
         IF id_estudiante = <<>> \/ strip(id_estudiante) = <<>>
         THEN Volver(p)
         ELSE \E grupo_a_calificar \in
                    obtener_grupos_a_calificar(grupo_afiliacion) \cap GruposCalificados :
                \* line 292; this copy is not read again, line 481 reloads it
                LET datos == cargar_datos
                IN IF verificar_calificacion_existente(datos.calificaciones,
                              id_estudiante, grupo_afiliacion, grupo_a_calificar)
                   THEN Volver(p)
                   ELSE \E calificaciones \in Formularios :
                             /\ pc' = [pc EXCEPT ![p] = "enviar"]
                             /\ UNCHANGED session_state
                             /\ local' = [local EXCEPT
                                    ![p].id_estudiante = Some(id_estudiante),
                                    ![p].grupo_afiliacion = Some(grupo_afiliacion),
                                    ![p].grupo_a_calificar = Some(grupo_a_calificar),
                                    ![p].calificaciones = Some(calificaciones)]
    /\ UNCHANGED <<calificaciones_json, estado_sesion_json, configuracion_json, now>>

\* lines 478-481: "Enviar" was pressed; the dict is tested and the shared
\* submissions are reloaded
Est_Enviar(p) ==
    /\ pc[p] = "enviar"
    /\ Len(calificaciones_json.calificaciones) < MaxCalifs
    /\ IF DOMAIN local[p].calificaciones[1] # {}
       THEN /\ session_state' = [session_state EXCEPT ![p].datos = cargar_datos]
            /\ pc' = [pc EXCEPT ![p] = "guardar"]
            /\ UNCHANGED local
       ELSE \* "Debes calificar al menos un criterio."
            Volver(p)
    /\ UNCHANGED <<calificaciones_json, estado_sesion_json, configuracion_json, now>>

\* lines 483-489
nueva_calificacion(p) ==
    [id_estudiante |-> strip(local[p].id_estudiante[1]),
     grupo_afiliacion |-> local[p].grupo_afiliacion[1],
     grupo_calificado |-> local[p].grupo_a_calificar[1],
     calificaciones |-> local[p].calificaciones[1]]

\* lines 491-492: append to the loaded copy and save the whole file
Est_Guardar(p) ==
    /\ pc[p] = "guardar"
    /\ LET datos == [session_state[p].datos EXCEPT
                        !.calificaciones = Append(@, nueva_calificacion(p))]
       IN calificaciones_json' = datos
    /\ Volver(p)
    /\ UNCHANGED <<estado_sesion_json, configuracion_json, now>>

----------------------------------------------------------------------------
(* mostrar_panel_profesor: session management                              *)

\* lines 546-548: "Iniciar Sesion"
Prof_Iniciar(p, duraciones) ==
    /\ pc[p] = "iniciar"
    /\ Len(calificaciones_json.sesiones) < MaxSesiones
    /\ \E duracion \in duraciones :
         LET fin == now + duracion
         IN /\ estado_sesion_json' = EstadoNuevo(TRUE, Some(fin), Some(duracion), "profesor")
            /\ local' = [local EXCEPT ![p].fin = Some(fin), ![p].duracion = Some(duracion)]
    /\ pc' = [pc EXCEPT ![p] = "iniciar_cargar"]
    /\ UNCHANGED <<calificaciones_json, configuracion_json, now, session_state>>

\* line 551
Prof_IniciarCargar(p) ==
    /\ pc[p] = "iniciar_cargar"
    /\ session_state' = [session_state EXCEPT ![p].datos = cargar_datos]
    /\ pc' = [pc EXCEPT ![p] = "iniciar_guardar"]
    /\ UNCHANGED <<calificaciones_json, estado_sesion_json, configuracion_json, now, local>>

\* lines 552-557: the audit record is appended to the loaded copy and saved
Prof_IniciarGuardar(p) ==
    /\ pc[p] = "iniciar_guardar"
    /\ LET registro == [inicio |-> isoformat(now),
                        fin |-> isoformat(local[p].fin[1]),
                        duracion_minutos |-> local[p].duracion[1]]
           datos == [session_state[p].datos EXCEPT !.sesiones = Append(@, registro)]
       IN calificaciones_json' = datos
    /\ Volver(p)
    /\ UNCHANGED <<estado_sesion_json, configuracion_json, now>>

\* Prof_Finalizar deactivating the session the way the auto-expiry does,
\* the expiry left in place
Prof_Finalizar_conserva_fin(p) ==
    /\ pc[p] = "finalizar"
    /\ estado_sesion_json' = [estado_sesion_json EXCEPT
            !.sesion_activa = FALSE, !.updated_by = Some("profesor")]
    /\ Volver(p)
    /\ UNCHANGED <<calificaciones_json, configuracion_json, now>>

\* lines 563-566: "Finalizar Sesion"
Prof_Finalizar(p) ==
    /\ pc[p] = "finalizar"
    /\ estado_sesion_json' = EstadoNuevo(FALSE, None, None, "profesor")
    /\ Volver(p)
    /\ UNCHANGED <<calificaciones_json, configuracion_json, now>>

----------------------------------------------------------------------------
(* mostrar_panel_profesor: weights and results                             *)

\* the positions at which the users are taken to leave a slider
ValoresDeslizador == {0, 40, 60, 70, 100}

\* st.slider(min_value, max_value, value): the value it returns is the
\* initial one or one the user picked between the two ends
slider(min_value, max_value, value) ==
    {value} \cup {v \in ValoresDeslizador : min_value <= v /\ v <= max_value}

Max(a, b) == IF a >= b THEN a ELSE b
Min(a, b) == IF a <= b THEN a ELSE b

\* max_id12 without the cap
max_id12_sin_tope(nuevo_peso_id11) == 100

\* line 609
max_id12(nuevo_peso_id11) == Max(0, 100 - nuevo_peso_id11)

\* guardar_configuracion, line 128: the file is opened for writing in place
guardar_configuracion_open == configuracion_json' = ArchivoVacio

\* guardar_configuracion, line 129 and the end of the with block
guardar_configuracion(config) == configuracion_json' = volcado(configuracion_json, config)

\* lines 597-627: the two sliders, the derived third weight, "Guardar Pesos",
\* up to the open of guardar_configuracion
Prof_GuardarPesos(p) ==
    /\ pc[p] = "pesos"
    /\ LET pesos == session_state[p].config
           peso_id11_actual == peso_de(pesos, "ID11")
           peso_id12_actual == peso_de(pesos, "ID12")
       IN \E nuevo_peso_id11 \in slider(0, 100, peso_id11_actual) :
            LET valor_id12 == Min(peso_id12_actual, max_id12(nuevo_peso_id11))
            IN \E nuevo_peso_id12 \in slider(0, max_id12(nuevo_peso_id11), valor_id12) :
                 LET nuevo_peso_id13 == 100 - nuevo_peso_id11 - nuevo_peso_id12
                     config == [pesos EXCEPT !["ID11"] = nuevo_peso_id11,
                                             !["ID12"] = nuevo_peso_id12,
                                             !["ID13"] = nuevo_peso_id13]
                 IN /\ guardar_configuracion_open
                    /\ pc' = [pc EXCEPT ![p] = "pesos_volcar"]
                    /\ session_state' = [session_state EXCEPT ![p].config = config]
                    /\ UNCHANGED local
    /\ UNCHANGED <<calificaciones_json, estado_sesion_json, now>>

\* lines 627-629: the config is dumped into the open file, then st.rerun
Prof_GuardarPesosVolcar(p) ==
    /\ pc[p] = "pesos_volcar"
    /\ guardar_configuracion(session_state[p].config)
    /\ Volver(p)
    /\ UNCHANGED <<calificaciones_json, estado_sesion_json, now>>

\* lines 633-641: "Calcular Promedios Finales"; each call reloads the shared
\* submissions and reads the session's own config
RECURSIVE todos_resultados(_, _, _)
todos_resultados(grupo, califs, pesos) ==
    IF grupo = 0 THEN <<>>
    ELSE LET r == calcular_promedios_grupo(califs, pesos, grupo)
         IN todos_resultados(grupo - 1, califs, pesos) \o r

Prof_Calcular(p) ==
    /\ pc[p] = "calcular"
    /\ pc' = [pc EXCEPT ![p] = "idle"]
    /\ session_state' = [session_state EXCEPT
           ![p].resultados_calculados =
               Some(todos_resultados(NumGrupos, cargar_datos.calificaciones,
                                     session_state[p].config)),
           ![p].datos = DatosDefault,
           ![p].sesion_activa = FALSE, ![p].tiempo_fin = None]
    /\ local' = [local EXCEPT ![p] = LocalInicial]
    /\ UNCHANGED <<calificaciones_json, estado_sesion_json, configuracion_json, now>>

\* lines 633-641 call by call: each step is one pass of the loop of line 635,
\* one calcular_promedios_grupo(grupo), which reloads the shared submissions
\* (line 306) and reads the weights from st.session_state.config (lines 354
\* and 360); other sessions may run between two calls
Prof_CalcularGrupo(p) ==
    /\ pc[p] = "calcular_grupos"
    /\ LET grupo == IF local[p].grupo = None THEN 1 ELSE local[p].grupo[1]
           r == calcular_promedios_grupo(cargar_datos.calificaciones,
                                         session_state[p].config, grupo)
           todos == local[p].todos_resultados \o r
       IN IF grupo < NumGrupos
          THEN /\ local' = [local EXCEPT ![p].grupo = Some(grupo + 1),
                                         ![p].todos_resultados = todos]
               /\ UNCHANGED <<pc, session_state>>
          ELSE /\ pc' = [pc EXCEPT ![p] = "idle"]
               /\ session_state' = [session_state EXCEPT
                      ![p].resultados_calculados = Some(todos),
                      ![p].datos = DatosDefault,
                      ![p].sesion_activa = FALSE, ![p].tiempo_fin = None]
               /\ local' = [local EXCEPT ![p] = LocalInicial]
    /\ UNCHANGED <<calificaciones_json, estado_sesion_json, configuracion_json, now>>

\* section 3 in a new browser session: st.session_state is built from the
\* files; cargar_configuracion halts the run on a file json.load rejects, and
\* the next run of the session tries again
AbrirSesion(p) ==
    /\ pc[p] \in {"idle", "detenido"}
    /\ IF Entero(configuracion_json)
       THEN /\ pc' = [pc EXCEPT ![p] = "idle"]
            /\ session_state' = [session_state EXCEPT
                   ![p] = SessionStateInicial(configuracion_json)]
       ELSE /\ pc' = [pc EXCEPT ![p] = "detenido"]
            /\ session_state' = [session_state EXCEPT
                   ![p] = SessionStateInicial(SinCargar)]
    /\ UNCHANGED <<calificaciones_json, estado_sesion_json, configuracion_json, now, local>>

----------------------------------------------------------------------------
(* The submission store under concurrent sessions, within one minute of    *)
(* the clock                                                               *)

PasoEstudiante(p, ids) ==
    \/ Sync(p, "estudiante")
    \/ Est_Check(p)
    \/ Est_Verificar(p, ids)
    \/ Est_Enviar(p)
    \/ Est_Guardar(p)

PasoSesiones(p, duraciones) ==
    \/ \E op \in {"iniciar", "finalizar", "ver"} : Sync(p, op)
    \/ Prof_Iniciar(p, duraciones)
    \/ Prof_IniciarCargar(p)
    \/ Prof_IniciarGuardar(p)
    \/ Prof_Finalizar(p)

\* two browser sessions of one evaluator, who types the id in lower case in
\* the first and in upper case after a blank in the second
Next ==
    \/ PasoEstudiante("e1", IdsTecleados \ {<<" ", "A">>})
    \/ PasoEstudiante("e2", {<<" ", "A">>})
    \/ \E p \in {"prof"} : PasoSesiones(p, {TIEMPO_MINIMO})

Spec == Init /\ [][Next]_vars

----------------------------------------------------------------------------
(* The session state under a moving clock: one student, the professor      *)

NextSesion ==
    \/ Tick
    \/ \E p \in {"e1"} : PasoEstudiante(p, {<<"a">>, <<" ">>})
    \/ \E p \in {"prof"} : PasoSesiones(p, DuracionesElegidas)
    \/ \E p \in {"e1", "prof"} : SyncSave(p)

SpecSesion == Init /\ [][NextSesion]_vars

----------------------------------------------------------------------------
(* The weights, edited from two professor sessions                         *)

\* configuracion_rubrica.json as the application finds it: cargar_configuracion
\* checks that "pesos" is there, not what the weights add up to
ConfiguracionesIniciales ==
    {PesosIniciales, [ID11 |-> 40, ID12 |-> 70, ID13 |-> 0]}

InitPesos ==
    /\ calificaciones_json = DatosDefault
    /\ estado_sesion_json = EstadoDefault
    /\ configuracion_json \in ConfiguracionesIniciales
    /\ now = 0
    /\ pc = [p \in Sesiones |-> "idle"]
    /\ session_state = [p \in Sesiones |-> SessionStateInicial(configuracion_json)]
    /\ local = [p \in Sesiones |-> LocalInicial]

NextPesos ==
    \E p \in {"prof", "prof2"} :
        \/ Sync(p, "pesos")
        \/ Prof_GuardarPesos(p)
        \/ Prof_GuardarPesosVolcar(p)
        \/ AbrirSesion(p)

SpecPesos == InitPesos /\ [][NextPesos]_vars

----------------------------------------------------------------------------
(* The aggregator, on the submission files it can be given                 *)

\* who submitted: an evaluator id in two letter cases, from two groups, and
\* another evaluator
EvaluadoresAgg ==
    {[id_estudiante |-> <<"a">>, grupo_afiliacion |-> 1],
     [id_estudiante |-> <<"A">>, grupo_afiliacion |-> 2],
     [id_estudiante |-> <<"b">>, grupo_afiliacion |-> 1]}

GruposAgg == {3, 4}

\* grade dicts: the full form, and dicts that leave criteria or whole
\* indicators out (the aggregator reads them with "if criterio in ...")
FormulariosAgg ==
    {[c \in Criterios |-> "C"],
     [c \in {"C111"} |-> "A"],
     [c \in {"C111", "C131", "C133"} |->
         IF c = "C111" THEN "B" ELSE IF c = "C131" THEN "E" ELSE "D"]}

CalificacionesAgg ==
    {[id_estudiante |-> e.id_estudiante, grupo_afiliacion |-> e.grupo_afiliacion,
      grupo_calificado |-> g, calificaciones |-> f] :
        e \in EvaluadoresAgg, g \in GruposAgg, f \in FormulariosAgg}

PesosAgg == {PesosIniciales, [ID11 |-> 0, ID12 |-> 40, ID13 |-> 60]}

\* the files in which no evaluator has rated a group twice from one group
InitAgg ==
    /\ \E n \in 0..MaxVotos : \E califs \in [1..n -> CalificacionesAgg] :
          /\ \A i, j \in 1..n :
                (/\ califs[i].id_estudiante = califs[j].id_estudiante
                 /\ califs[i].grupo_afiliacion = califs[j].grupo_afiliacion
                 /\ califs[i].grupo_calificado = califs[j].grupo_calificado) => i = j
          /\ calificaciones_json = [calificaciones |-> califs, sesiones |-> <<>>]
    /\ estado_sesion_json = EstadoDefault
    /\ configuracion_json \in PesosAgg
    /\ now = 0
    /\ pc = [p \in Sesiones |-> "idle"]
    /\ session_state = [p \in Sesiones |-> SessionStateInicial(configuracion_json)]
    /\ local = [p \in Sesiones |-> LocalInicial]

NextAgg ==
    \E p \in {"prof"} :
        \/ Sync(p, "calcular")
        \/ Prof_Calcular(p)

SpecAgg == InitAgg /\ [][NextAgg]_vars

----------------------------------------------------------------------------
(* The results computed while other sessions submit and save weights       *)

\* a session is running: it was started at 0 for TIEMPO_MINIMO minutes
RegistroInicial ==
    [inicio |-> isoformat(0), fin |-> isoformat(TIEMPO_MINIMO),
     duracion_minutos |-> TIEMPO_MINIMO]

\* the submissions found in the file: none, or one of another evaluator
CalificacionesCalculo ==
    {<<>>,
     <<[id_estudiante |-> <<"b">>, grupo_afiliacion |-> 1, grupo_calificado |-> 3,
        calificaciones |-> [c \in Criterios |-> "A"]]>>}

InitCalculo ==
    /\ \E califs \in CalificacionesCalculo :
          calificaciones_json = [calificaciones |-> califs,
                                 sesiones |-> <<RegistroInicial>>]
    /\ estado_sesion_json =
          EstadoNuevo(TRUE, Some(TIEMPO_MINIMO), Some(TIEMPO_MINIMO), "profesor")
    /\ configuracion_json = PesosIniciales
    /\ now = 0
    /\ pc = [p \in Sesiones |-> "idle"]
    /\ session_state = [p \in Sesiones |-> SessionStateInicial(PesosIniciales)]
    /\ local = [p \in Sesiones |-> LocalInicial]

NextCalculo ==
    \/ PasoEstudiante("e1", {<<"a">>})
    \/ Sync("prof", "calcular_grupos")
    \/ Prof_CalcularGrupo("prof")
    \/ Sync("prof2", "pesos")
    \/ Prof_GuardarPesos("prof2")
    \/ Prof_GuardarPesosVolcar("prof2")

SpecCalculo == InitCalculo /\ [][NextCalculo]_vars

----------------------------------------------------------------------------
(* Properties of the submission store                                      *)

Guardadas == calificaciones_json.calificaciones

\* two letters that differ at most in their case
MismaLetra(c, d) ==
    \/ c = d
    \/ <<c, d>> \in {<<"a", "A">>, <<"A", "a">>, <<"b", "B">>, <<"B", "b">>}

\* two ids that are the same up to the case of their letters
MismoEvaluador(x, y) ==
    /\ Len(x) = Len(y)
    /\ \A i \in 1..Len(x) : MismaLetra(x[i], y[i])

Letras == {"a", "A", "b", "B"}

\* the letter-case variants of an id
VariantesDe(id) == {v \in [1..Len(id) -> Letras] : MismoEvaluador(v, id)}

\* C1: in every reachable state there is at most one stored submission per
\* (evaluator id compared case-insensitively, rated group) pair.
C1_UnaPorEvaluadorYGrupo ==
    \A i, j \in 1..Len(Guardadas) :
        (/\ MismoEvaluador(Guardadas[i].id_estudiante, Guardadas[j].id_estudiante)
         /\ Guardadas[i].grupo_calificado = Guardadas[j].grupo_calificado)
        => i = j

C10_CalificacionValida ==
    \A i \in 1..Len(Guardadas) :
        /\ Guardadas[i].grupo_calificado # Guardadas[i].grupo_afiliacion
        /\ DOMAIN Guardadas[i].calificaciones # {}

\* two submissions are stored, one of them by a student of group 2, who is
\* offered groups 2 and 3 less their own
C10_Witness ==
    /\ Len(Guardadas) = MaxCalifs
    /\ \E i \in 1..Len(Guardadas) :
          Guardadas[i].grupo_afiliacion = 2 /\ Guardadas[i].grupo_calificado = 3

----------------------------------------------------------------------------
(* Properties of the session state                                         *)

\* the clock has passed the expiry of the session the file holds as active
Vencida ==
    /\ estado_sesion_json.sesion_activa
    /\ estado_sesion_json.tiempo_fin # None
    /\ now > estado_sesion_json.tiempo_fin[1].iso

\* C2: once the clock has passed the expiry of a started session, a read of
\* the session state gives it as inactive (the estado cargar_estado_sesion is
\* about to save and return, and every estado it has saved), and a student
\* rerun whose test of the session comes after the expiry stops there: it
\* does not go on to the form and leaves the submissions as they are.
C2_ExpiraAlLeer ==
    [][ \A p \in Sesiones :
          /\ (pc[p] = "idle" /\ pc'[p] # "idle" /\ Vencida)
             => /\ pc'[p] = "sync_save"
                /\ ~local'[p].estado[1].sesion_activa
          /\ (pc[p] = "sync_save" /\ pc'[p] # "sync_save")
             => /\ ~estado_sesion_json'.sesion_activa
                /\ ~session_state'[p].sesion_activa
                /\ pc'[p] \notin {"check", "verificar", "enviar", "guardar"}
                /\ calificaciones_json' = calificaciones_json
          /\ (/\ pc[p] = "check" /\ pc'[p] # "check"
              /\ session_state[p].tiempo_fin # None
              /\ now > session_state[p].tiempo_fin[1])
             => /\ pc'[p] = "idle"
                /\ ~estado_sesion_json'.sesion_activa
                /\ calificaciones_json' = calificaciones_json
      ]_vars

\* a session started at T for TIEMPO_MINIMO minutes, read at T + TIEMPO_MINIMO + 1
\* and saved as expired
C2_Witness ==
    /\ ~estado_sesion_json.sesion_activa
    /\ estado_sesion_json.updated_by = Some("auto-expire")
    /\ estado_sesion_json.duracion_minutos = Some(TIEMPO_MINIMO)
    /\ estado_sesion_json.tiempo_fin # None
    /\ now = estado_sesion_json.tiempo_fin[1].iso + 1

\* C4: "Iniciar Sesion" leaves the persisted state active with the expiry at
\* the time of the action plus the duration; "Finalizar Sesion" leaves it
\* inactive with no expiry; whatever the state was before.
C4_IniciarYFinalizar ==
    [][ \A p \in Profesores :
          /\ (pc[p] = "iniciar" /\ pc'[p] # "iniciar")
             => /\ estado_sesion_json'.sesion_activa
                /\ estado_sesion_json'.duracion_minutos # None
                /\ estado_sesion_json'.tiempo_fin # None
                /\ estado_sesion_json'.tiempo_fin[1].iso
                      = now + estado_sesion_json'.duracion_minutos[1]
          /\ (pc[p] = "finalizar" /\ pc'[p] # "finalizar")
             => /\ ~estado_sesion_json'.sesion_activa
                /\ estado_sesion_json'.tiempo_fin = None
      ]_vars

\* the professor has stopped a session that an earlier start had recorded
C4_Witness ==
    /\ ~estado_sesion_json.sesion_activa
    /\ estado_sesion_json.tiempo_fin = None
    /\ estado_sesion_json.updated_by = Some("profesor")
    /\ Len(calificaciones_json.sesiones) > 0

----------------------------------------------------------------------------
(* Properties of the weights                                               *)

PesosValidos(pesos) ==
    /\ pesos.ID11 + pesos.ID12 + pesos.ID13 = 100
    /\ \A k \in {"ID11", "ID12", "ID13"} : pesos[k] >= 0 /\ pesos[k] <= 100
    /\ pesos.ID11 + pesos.ID12 <= 100

\* C5: after a save of the weights from the sliders, whatever their positions
\* and whatever the weights were before, the weights the save stores add up to
\* 100, each lies between 0 and 100, and ID11 + ID12 does not exceed 100; they
\* are the weights the file holds when the save is over and the file holds any.
C5_PesosSuman100 ==
    [][ \A p \in Profesores :
          /\ (pc[p] = "pesos" /\ pc'[p] # "pesos")
             => PesosValidos(session_state'[p].config)
          /\ (pc[p] = "pesos_volcar" /\ pc'[p] # "pesos_volcar")
             => /\ PesosValidos(session_state'[p].config)
                /\ Entero(configuracion_json')
                      => configuracion_json' = session_state'[p].config
      ]_vars

\* the file held ID11 = 40 and ID12 = 70; a save with the first slider left
\* at 40 has stored ID12 = 60
C5_Witness ==
    /\ configuracion_json = [ID11 |-> 40, ID12 |-> 60, ID13 |-> 0]
    /\ \E p \in Profesores : session_state[p].config = configuracion_json
    /\ \E p \in Profesores :
          Entero(session_state[p].config) /\ session_state[p].config.ID12 = 70

----------------------------------------------------------------------------
(* Properties of the aggregator                                            *)

\* the results a session has on display
Calculados(p) ==
    IF session_state[p].resultados_calculados = None THEN {}
    ELSE LET todos == session_state[p].resultados_calculados[1]
         IN {todos[i] : i \in 1..Len(todos)}

\* the stored submissions that rate a group, by their place in the file
Califican(grupo) ==
    {i \in 1..Len(Guardadas) : Guardadas[i].grupo_calificado = grupo}

\* those of them that grade a criterion
Votan(grupo, criterio) ==
    {i \in Califican(grupo) : criterio \in DOMAIN Guardadas[i].calificaciones}

Veces(grupo, criterio, letra) ==
    Cardinality({i \in Votan(grupo, criterio) :
                    Guardadas[i].calificaciones[criterio] = letra})

Primera(grupo, criterio, letra) ==
    CHOOSE i \in Votan(grupo, criterio) :
        /\ Guardadas[i].calificaciones[criterio] = letra
        /\ \A j \in Votan(grupo, criterio) :
              Guardadas[j].calificaciones[criterio] = letra => i <= j

LetrasVotadas(grupo, criterio) ==
    {Guardadas[i].calificaciones[criterio] : i \in Votan(grupo, criterio)}

\* the grade with the most votes, the earliest voted one among equals
EsModa(grupo, criterio, letra) ==
    /\ letra \in LetrasVotadas(grupo, criterio)
    /\ \A otra \in LetrasVotadas(grupo, criterio) \ {letra} :
          \/ Veces(grupo, criterio, otra) < Veces(grupo, criterio, letra)
          \/ /\ Veces(grupo, criterio, otra) = Veces(grupo, criterio, letra)
             /\ Primera(grupo, criterio, letra) < Primera(grupo, criterio, otra)

\* the midpoints of the grade ranges, in hundredths
Centesimas(letra) ==
    CASE letra = "A" -> 475 [] letra = "B" -> 425 [] letra = "C" -> 375
      [] letra = "D" -> 325 [] letra = "E" -> 150

\* C6: calcular_promedios_grupo gives None exactly for the groups no stored
\* submission rates, and the results on display are those of exactly the
\* rated groups, a final score of 0.0 included.
C6_NoneSiNadieCalifica ==
    /\ \A grupo \in GRUPOS_DISPONIBLES :
          (calcular_promedios_grupo(Guardadas, configuracion_json, grupo) = None)
             <=> (Califican(grupo) = {})
    /\ \A p \in Profesores :
          session_state[p].resultados_calculados # None
          => {r.grupo_calificado : r \in Calculados(p)}
                = {grupo \in GRUPOS_DISPONIBLES : Califican(grupo) # {}}

\* a group on display with a final score of 0.0
C6_Witness ==
    \E p \in Profesores : \E r \in Calculados(p) :
        r.final.num = 0 /\ Califican(r.grupo_calificado) # {}

\* for a result r, the indicators with a graded criterion and their sums
Votados(r, k) ==
    {c \in Criterios :
        /\ \E i \in 1..Len(RUBRICA_ESTRUCTURA[k].criterios) :
              RUBRICA_ESTRUCTURA[k].criterios[i] = c
        /\ Votan(r.grupo_calificado, c) # {}}

RECURSIVE SumaCentesimas(_, _)
SumaCentesimas(r, criterios) ==
    IF criterios = {} THEN 0
    ELSE LET c == CHOOSE x \in criterios : TRUE
             moda == CHOOSE l \in LetrasVotadas(r.grupo_calificado, c) :
                        EsModa(r.grupo_calificado, c, l)
         IN Centesimas(moda) + SumaCentesimas(r, criterios \ {c})

\* 6 * 100 * 100 times the final score the claim describes: every indicator
\* with a graded criterion adds (sum of its graded criteria's values, in
\* hundredths) * (6 / number of graded criteria) * weight
RECURSIVE FinalEsperadoPor60000(_, _, _)
FinalEsperadoPor60000(r, pesos, k) ==
    IF k = 0 THEN 0
    ELSE LET n == Cardinality(Votados(r, k))
             w == pesos[key_peso(RUBRICA_ESTRUCTURA[k].id)]
         IN FinalEsperadoPor60000(r, pesos, k - 1)
              + (IF n = 0 THEN 0 ELSE SumaCentesimas(r, Votados(r, k)) * (6 \div n) * w)

\* C7: the final score of every result on display is the sum, over the
\* indicators with at least one graded criterion, of the average of the graded
\* criteria's values times weight / 100; criteria without votes are left out
\* of the average and indicators without a graded criterion add nothing.
C7_NotaFinal ==
    \A p \in Profesores : \A r \in Calculados(p) :
        r.final.num * 60000
           = r.final.den * FinalEsperadoPor60000(r, session_state[p].config,
                                                 Len(RUBRICA_ESTRUCTURA))

\* a result whose first indicator has one of its two criteria graded, whose
\* other indicators have none, and whose final score is not 0.0
C7_Witness ==
    \E p \in Profesores : \E r \in Calculados(p) :
        /\ Cardinality(Votados(r, 1)) = 1
        /\ Votados(r, 2) = {}
        /\ Votados(r, 3) = {}
        /\ r.final.num > 0

\* C8: the qualitative grade of every criterion on display is a grade with the
\* most votes for the criterion, and among several such the one voted first
\* in the order of the submissions; criteria without votes are not displayed.
C8_ModaPrimera ==
    \A p \in Profesores : \A r \in Calculados(p) :
        /\ DOMAIN r.criterios = {c \in Criterios : Votan(r.grupo_calificado, c) # {}}
        /\ \A c \in DOMAIN r.criterios :
              EsModa(r.grupo_calificado, c, r.criterios[c].cualitativa)

\* "B" and "A" tie for C111 and "B", voted first, is the grade displayed
C8_Witness ==
    \E p \in Profesores : \E r \in Calculados(p) :
        /\ "C111" \in DOMAIN r.criterios
        /\ r.criterios["C111"].cualitativa = "B"
        /\ Veces(r.grupo_calificado, "C111", "A") = Veces(r.grupo_calificado, "C111", "B")

\* C9: the total-evaluator count calcular_promedios_grupo gives for a group is
\* the number of evaluators, ids compared case-insensitively, among the stored
\* submissions that rate the group.
C9_TotalEvaluadores ==
    \A grupo \in GRUPOS_DISPONIBLES :
        LET r == calcular_promedios_grupo(Guardadas, configuracion_json, grupo)
        IN r # None
           => r[1].total_evaluadores
                 = Cardinality({upper(Guardadas[i].id_estudiante) : i \in Califican(grupo)})

----------------------------------------------------------------------------
(* Properties of the shared files under concurrent sessions                *)

\* C11: a submission that has been saved, and so reported to its evaluator as
\* registered, is in the persisted store after every later step of any
\* session, student submission or start of a session.
C11_RegistradaPermanece ==
    [][ \A i \in 1..Len(Guardadas) :
          \E j \in 1..Len(Guardadas') : Guardadas'[j] = Guardadas[i]
      ]_vars

\* C12: no reader of a persisted file finds it partially written.  The saves
\* of calificaciones.json and estado_sesion.json replace the file in one move
\* under its lock; a reader of configuracion_rubrica.json that finds it
\* partially written is halted by cargar_configuracion.
C12_NadieLeeAMedias ==
    /\ \A p \in Sesiones : pc[p] # "detenido"
    /\ \A p \in Sesiones : session_state[p].config # SinCargar

\* C13: each call calcular_promedios_grupo(grupo) gives the result computed
\* from the submissions and the weights the files hold at the moment of the
\* call, whatever other sessions have appended and saved since this session
\* loaded them.
C13_CalculaConLoPersistido ==
    [][ \A p \in Profesores :
          (/\ pc[p] = "calcular_grupos" /\ <<pc'[p], local'[p]>> # <<pc[p], local[p]>>
           /\ Entero(configuracion_json))
          => LET grupo == IF local[p].grupo = None THEN 1 ELSE local[p].grupo[1]
                 r == calcular_promedios_grupo(Guardadas, configuracion_json, grupo)
                 todos == local[p].todos_resultados \o r
             IN IF grupo < NumGrupos
                THEN local'[p].todos_resultados = todos
                ELSE session_state'[p].resultados_calculados = Some(todos)
      ]_vars

\* C14: the audit log "sesiones" only grows at its end: every step of any
\* session leaves the records it held in place and unchanged, and the save
\* that ends "Iniciar Sesion" leaves it one record longer.
C14_SesionesSoloCrece ==
    [][ LET antes == calificaciones_json.sesiones
            despues == calificaciones_json'.sesiones
        IN /\ Len(antes) <= Len(despues)
           /\ \A i \in 1..Len(antes) : despues[i] = antes[i]
           /\ \A p \in Profesores :
                 (pc[p] = "iniciar_guardar" /\ pc'[p] # "iniciar_guardar")
                 => Len(despues) = Len(antes) + 1
      ]_vars

\* C15: a session the file holds as active stays active there until the
\* clock has passed its own expiry or the professor stops it: no other step,
\* the save of an expiry by a reader that loaded an older state included,
\* turns it inactive.
C15_ActivaHastaExpirarOFinalizar ==
    [][ (estado_sesion_json.sesion_activa /\ ~estado_sesion_json'.sesion_activa)
        => \/ Vencida
           \/ \E p \in Profesores : pc[p] = "finalizar" /\ pc'[p] # "finalizar"
      ]_vars

====
